---- MODULE Spec2Model ----
(***************************************************************************)
(* A model of fret_hmm.py: categorical sampling (weighted_choice), random  *)
(* model construction (random_model, random_model_from_emissions) and      *)
(* trajectory simulation (random_data).                                    *)
(*                                                                         *)
(* Floating-point numbers are modelled in a binary format of Precision     *)
(* significant bits, rounded to nearest with ties to even as IEEE doubles  *)
(* are.  A number is written as an integer count of the finest step in     *)
(* use; the subtraction r -= p of weighted_choice rounds its result to the *)
(* format.  State indices are 0-based as in the source; TLA+ sequences are *)
(* 1-based, so the weight of state s is probs[s+1].                        *)
(***************************************************************************)
EXTENDS Integers, Sequences, FiniteSets, TLC

VARIABLES
    wc_probs, wc_r, wc_ret,                 \* one call of weighted_choice
    mf_args, mf_model,                      \* one call of the model factory
    model, length, noise,                   \* arguments of random_data
    pc, state, state_seq, data, dwells, dwell, i,   \* locals of random_data
    seed, rng, sims                         \* the module-level generator and two runs

wcVars == <<wc_probs, wc_r, wc_ret>>
mfVars == <<mf_args, mf_model>>
argVars == <<model, length, noise>>
rdVars == <<pc, state, state_seq, data, dwells, dwell, i>>
ccVars == <<seed, rng, sims>>
vars == <<wcVars, mfVars, argVars, rdVars, ccVars>>

---------------------------------------------------------------------------
(* Bounds *)

\* significant bits of a floating-point number (53 in the doubles of the code)
Precision == 3
\* longest weight vector handed to weighted_choice
MaxLen == 3
\* largest number of states of a model
MaxStates == 2
\* largest number of observables of a model
MaxObs == 2
\* longest trajectory asked of random_data
MaxLength == 3
\* grid steps per unit for the uniform draws of the model factory
Grid == 2
\* largest count a Poisson draw gives
MaxCount == 2
\* number of values a draw of a generator stream takes
StreamLevels == 2
\* largest length of the interleaved runs
ConcLength == 2
\* number of states of the model the interleaved factory call builds
FactoryStates == 1
\* number of states and longest trajectory of the runs on models whose
\* weights are finer than the spacing of the uniform draws
FineStates == 3
FineLength == 2

(* Program constants *)

\* randint(0, 1500, ...): emission parameters are drawn below this value
EmitRange == 1500

---------------------------------------------------------------------------
(* Helpers *)

RECURSIVE SeqSum(_)
SeqSum(s) == IF s = <<>> THEN 0 ELSE Head(s) + SeqSum(Tail(s))

Min(a, b) == IF a < b THEN a ELSE b

\* all sequences of length n over the set S
SeqsOf(S, n) == [1..n -> S]

\* xrange(n): the outcomes 0, 1, ..., n-1 in order
XRange(n) == [k \in 1..n |-> k - 1]

---------------------------------------------------------------------------
(* Floating-point arithmetic *)

RECURSIVE BitLength(_)
BitLength(x) == IF x = 0 THEN 0 ELSE 1 + BitLength(x \div 2)

\* the non-negative number x rounded to Precision significant bits, to
\* nearest and on a tie to the even significand
Fl(x) ==
    IF x < 2 ^ Precision THEN x
    ELSE LET e == BitLength(x) - Precision
             q == x \div (2 ^ e)
             rest == x % (2 ^ e)
             half == 2 ^ (e - 1)
             up == rest > half \/ (rest = half /\ q % 2 = 1)
         IN  (IF up THEN q + 1 ELSE q) * (2 ^ e)

\* the numbers of the format
Representable(x) == Fl(x) = x

\* 1.0 counted in steps of half the spacing of the uniform draws: weights
\* can be finer than the draws, as doubles below 1 can be finer than 2^-53
FineOne == 2 ^ (Precision + 1)

\* random.random(): the multiples of 2^-Precision in [0,1)
FineDraws == {k * (FineOne \div (2 ^ Precision)) : k \in 0..(2 ^ Precision - 1)}

\* the spacing of the uniform draws
DrawStep == FineOne \div (2 ^ Precision)

---------------------------------------------------------------------------
(* weighted_choice *)

Returned(c) == [raised |-> FALSE, value |-> c]
RuntimeError == [raised |-> TRUE, value |-> 0 - 1]

\* the for loop over zip(choices, probs) from position k on, with r the
\* remaining draw; zip stops at the shorter sequence, and r -= p is a
\* floating-point subtraction
RECURSIVE Walk(_, _, _, _)
Walk(choices, probs, r, k) ==
    IF k > Min(Len(choices), Len(probs))
    THEN RuntimeError
    ELSE IF r < probs[k]
         THEN Returned(choices[k])
         ELSE Walk(choices, probs, Fl(r - probs[k]), k + 1)

WeightedChoice(choices, probs, r) == Walk(choices, probs, r, 1)

---------------------------------------------------------------------------
(* Specification SpecWC: weighted_choice on bounded inputs *)

\* the numbers of the format up to a little above 1
WeightsUpTo(top) == {x \in 0..top : Representable(x)}

\* weight vectors of length n whose sum is within the tolerance of 1, the
\* tolerance being the spacing of the draws
NearNormalized(n) ==
    {p \in SeqsOf(WeightsUpTo(FineOne + DrawStep), n) :
        SeqSum(p) \in (FineOne - DrawStep)..(FineOne + DrawStep)}

\* the empty vector and the near-normalized vectors of length n
WcInputs(n) == IF n = 0 THEN {<<>>} ELSE NearNormalized(n)

NoCall == [raised |-> FALSE, value |-> 0 - 2]

Idle ==
    /\ mf_args = [entry |-> "none"]
    /\ mf_model = [stage |-> "none"]

InitWC ==
    /\ \E n \in 0..MaxLen : wc_probs \in WcInputs(n)
    /\ wc_r \in FineDraws
    /\ wc_ret = NoCall
    /\ Idle
    /\ model = [n_states |-> 0] /\ length = 0 /\ noise = FALSE
    /\ pc = "idle" /\ state = 0 - 1 /\ state_seq = <<>> /\ data = <<>>
    /\ dwells = <<>> /\ dwell = 0 /\ i = 0
    /\ seed = <<>> /\ rng = 0 /\ sims = <<>>

CallWeightedChoice ==
    /\ wc_ret = NoCall
    /\ wc_ret' = WeightedChoice(XRange(Len(wc_probs)), wc_probs, wc_r)
    /\ UNCHANGED <<wc_probs, wc_r, mfVars, argVars, rdVars, ccVars>>

NextWC == CallWeightedChoice

SpecWC == InitWC /\ [][NextWC]_vars

\* the cumulative weight p_1 + ... + p_k
Cum(p, k) == SeqSum(SubSeq(p, 1, k))

WcCalled == wc_ret # NoCall

\* C1: weighted_choice returns one of the outcomes and never raises, for
\* every draw r in [0,1) and every non-empty vector of non-negative weights
\* whose sum is within the tolerance of 1, below as well as above.
C1_NeverRaises ==
    (WcCalled /\ wc_probs # <<>>)
        => (~wc_ret.raised /\ wc_ret.value \in 0..(Len(wc_probs) - 1))

\* C9: for a draw r below the sum of the weights, weighted_choice returns
\* the outcome at the unique index k with p_0+...+p_{k-1} <= r < p_0+...+p_k,
\* so an outcome of weight 0 is never returned.
C9_CumulativeIndex ==
    (WcCalled /\ wc_r < SeqSum(wc_probs))
        => /\ ~wc_ret.raised
           /\ \A k \in 1..Len(wc_probs) :
                (Cum(wc_probs, k - 1) <= wc_r /\ wc_r < Cum(wc_probs, k))
                    <=> (wc_ret.value = k - 1)
           /\ wc_ret.value \in 0..(Len(wc_probs) - 1)
           /\ wc_probs[wc_ret.value + 1] > 0

---------------------------------------------------------------------------
(* random_model and random_model_from_emissions *)

RECURSIVE Gcd(_, _)
Gcd(a, b) == IF b = 0 THEN a ELSE Gcd(b, a % b)

RECURSIVE SeqGcd(_)
SeqGcd(s) == IF s = <<>> THEN 0 ELSE Gcd(Head(s), SeqGcd(Tail(s)))

\* v /= sum(v) for a vector v of non-negative grid values.  The quotient is
\* the vector of fractions num[k]/den in lowest terms; den = 0 stands for the
\* result of 0/0, where every entry is NaN.
Normalize(v) ==
    LET total == SeqSum(v)
        g == SeqGcd(v)
    IN  IF total = 0
        THEN [num |-> v, den |-> 0]
        ELSE [num |-> [k \in 1..Len(v) |-> v[k] \div g], den |-> total \div g]

\* a numpy array: its shape and its elements in row-major order
Array(shape, elems) == [shape |-> shape, elems |-> elems]

\* emission parameters in [0, EmitRange), the first of them e0
EmissionElems(e0, count) == [k \in 1..count |-> (e0 + k - 1) % EmitRange]

\* lines 29-31: a 1-D array of length n is reshaped to (n, 1)
Reshaped(emissions) ==
    IF Len(emissions.shape) = 1
    THEN Array(<<Len(emissions.elems), 1>>, emissions.elems)
    ELSE emissions

\* lines 37-40 for row i (0-based): stay_prob = a/Grid and the sample u, both
\* in grid steps; t = stay_prob * u has entries a*u[j] in steps of 1/Grid^2,
\* and t[i] = stay_prob is a*Grid in those steps
TransitionRow(row, a, u) ==
    Normalize([j \in 1..Len(u) |-> IF j = row + 1 THEN a * Grid ELSE a * u[j]])

Samples(n) == SeqsOf(0..(Grid - 1), n)

\* the module-level generator of the random module.  Once seeded it yields
\* one fixed stream of draws in [0,1).  Which stream a seed yields is the
\* generator's algorithm, which is not computed here: the stream is given
\* (seed) and the number of draws taken from it is kept (rng).  The streams
\* are the sequences of the draws k/StreamLevels.
StreamDraws == {k * (FineOne \div StreamLevels) : k \in 0..(StreamLevels - 1)}
Streams(n) == SeqsOf(StreamDraws, n)

\* random.random(): the draw after pos draws have been taken
Random(stream, pos) == stream[pos + 1]

\* line 37: the draw as stay_prob, in steps of 1/Grid
StayProb(draw) == (draw * Grid) \div FineOne

---------------------------------------------------------------------------
(* Specification SpecMF: one call of a factory entry point *)

EmitStarts == {0, EmitRange - 1}

MfCalls ==
    {[entry |-> "random_model", n_states |-> n, n_obs |-> o] :
        n \in 1..MaxStates, o \in 1..MaxObs}
    \cup
    {[entry |-> "random_model_from_emissions",
      emissions |-> Array(<<n, o>>, EmissionElems(e0, n * o))] :
        n \in 1..MaxStates, o \in 1..MaxObs, e0 \in EmitStarts}
    \cup
    {[entry |-> "random_model_from_emissions",
      emissions |-> Array(<<n>>, EmissionElems(e0, n))] :
        n \in 1..MaxStates, e0 \in EmitStarts}

InitMF ==
    /\ mf_args \in MfCalls
    /\ mf_model = [stage |-> "call"]
    /\ wc_probs = <<>> /\ wc_r = 0 /\ wc_ret = NoCall
    /\ model = [n_states |-> 0] /\ length = 0 /\ noise = FALSE
    /\ pc = "idle" /\ state = 0 - 1 /\ state_seq = <<>> /\ data = <<>>
    /\ dwells = <<>> /\ dwell = 0 /\ i = 0
    /\ seed \in Streams(MaxStates) /\ rng = 0 /\ sims = <<>>

\* lines 29-33: the body of random_model_from_emissions up to the row loop
EnterFromEmissions(emissions, u) ==
    LET e == Reshaped(emissions)
    IN  [stage |-> "rows", emissions |-> e,
         n_states |-> e.shape[1], n_obs |-> e.shape[2],
         start_prob |-> Normalize(u), transition_prob |-> <<>>]

\* random_model: draw the emissions and delegate
RandomModel ==
    /\ mf_model.stage = "call"
    /\ mf_args.entry = "random_model"
    /\ \E e0 \in EmitStarts, u \in Samples(mf_args.n_states) :
        mf_model' = EnterFromEmissions(
            Array(<<mf_args.n_states, mf_args.n_obs>>,
                  EmissionElems(e0, mf_args.n_states * mf_args.n_obs)), u)
    /\ UNCHANGED <<mf_args, wcVars, argVars, rdVars, ccVars>>

RandomModelFromEmissions ==
    /\ mf_model.stage = "call"
    /\ mf_args.entry = "random_model_from_emissions"
    /\ \E u \in Samples(Reshaped(mf_args.emissions).shape[1]) :
        mf_model' = EnterFromEmissions(mf_args.emissions, u)
    /\ UNCHANGED <<mf_args, wcVars, argVars, rdVars, ccVars>>

\* one iteration of the loop of lines 36-41: stay_prob is the next draw of
\* the module-level generator (line 37), the sample u comes from numpy
TransitionRowStep ==
    /\ mf_model.stage = "rows"
    /\ Len(mf_model.transition_prob) < mf_model.n_states
    /\ rng < Len(seed)
    /\ rng' = rng + 1
    /\ \E u \in Samples(mf_model.n_states) :
        mf_model' = [mf_model EXCEPT !.transition_prob =
            Append(@, TransitionRow(Len(mf_model.transition_prob),
                                    StayProb(Random(seed, rng)), u))]
    /\ UNCHANGED <<mf_args, seed, sims, wcVars, argVars, rdVars>>

\* lines 43-44: Model(n_states, n_obs, start_prob, transition_prob, emissions)
ReturnModel ==
    /\ mf_model.stage = "rows"
    /\ Len(mf_model.transition_prob) = mf_model.n_states
    /\ mf_model' = [stage |-> "done",
                    n_states |-> mf_model.n_states, n_obs |-> mf_model.n_obs,
                    start_prob |-> mf_model.start_prob,
                    trans_prob |-> mf_model.transition_prob,
                    emissions |-> mf_model.emissions]
    /\ UNCHANGED <<mf_args, wcVars, argVars, rdVars, ccVars>>

NextMF ==
    \/ RandomModel
    \/ RandomModelFromEmissions
    \/ TransitionRowStep
    \/ ReturnModel

SpecMF == InitMF /\ [][NextMF]_vars

\* a normalized vector of n non-negative entries that sum to 1
IsDistribution(p, n) ==
    /\ Len(p.num) = n
    /\ p.den > 0
    /\ \A k \in 1..n : p.num[k] >= 0
    /\ SeqSum(p.num) = p.den

\* C5: for any n_states >= 1 and n_obs >= 1 and every outcome of the uniform
\* draws in [0,1), the Model built by random_model_from_emissions (and by
\* random_model) has start_prob with n_states non-negative entries that sum
\* to 1, trans_prob with n_states rows that are each such a vector, and
\* emissions of shape (n_states, n_obs).
C5_ValidModel ==
    mf_model.stage = "done"
        => /\ mf_model.n_states >= 1 /\ mf_model.n_obs >= 1
           /\ IsDistribution(mf_model.start_prob, mf_model.n_states)
           /\ Len(mf_model.trans_prob) = mf_model.n_states
           /\ \A k \in 1..Len(mf_model.trans_prob) :
                IsDistribution(mf_model.trans_prob[k], mf_model.n_states)
           /\ mf_model.emissions.shape = <<mf_model.n_states, mf_model.n_obs>>

---------------------------------------------------------------------------
(* random_data *)

\* the locals of one run of random_data
Locals(p, s, seq, d, dws, dw, n) ==
    [pc |-> p, state |-> s, state_seq |-> seq, data |-> d,
     dwells |-> dws, dwell |-> dw, i |-> n]

\* lines 53-57 with the initial state still to be sampled
Entered(m) ==
    Locals("start", 0 - 1, <<>>, <<>>, [s \in 0..(m.n_states - 1) |-> <<>>], 0, 0)

\* line 54: state = weighted_choice(xrange(model.n_states), model.start_prob)
InitialChoice(m, r) == WeightedChoice(XRange(m.n_states), m.start_prob, r)

\* line 66: weighted_choice(xrange(model.n_states), model.trans_prob[state])
NextChoice(m, s, r) == WeightedChoice(XRange(m.n_states), m.trans_prob[s], r)

\* line 58: for i in xrange(length)
LoopContinues(n, len) == n < len

\* a slip: the emission row of state 0 whatever the state
EmissionRowOfFirst(m, s) == m.emissions[0]

\* line 60: datum = model.emissions[state]
EmissionRow(m, s) == m.emissions[s]

\* line 62: poisson(datum), one count per channel.  A channel of rate 0
\* gives 0; a channel of a positive rate gives any count from 0 up, here
\* up to MaxCount.
PoissonCounts(rate) == IF rate = 0 THEN {0} ELSE 0..MaxCount
Poisson(row) ==
    {d \in [1..Len(row) -> UNION {PoissonCounts(row[k]) : k \in 1..Len(row)}] :
        \A k \in 1..Len(row) : d[k] \in PoissonCounts(row[k])}

\* lines 60-62: the values datum can take
Datums(m, s, noisy) == IF noisy THEN Poisson(EmissionRow(m, s)) ELSE {EmissionRow(m, s)}

\* a slip: the counter appended at every step
DwellsAppendedAlways(dws, old_state, new_state, dw) ==
    [dws EXCEPT ![old_state] = Append(@, dw)]

\* lines 68-69: dwells[old_state].append(dwell) when the state changed
DwellsAfter(dws, old_state, new_state, dw) ==
    IF new_state # old_state
    THEN [dws EXCEPT ![old_state] = Append(@, dw)]
    ELSE dws

\* a slip: the counter never reset
DwellNeverReset(dw, old_state, new_state) == dw + 1

\* lines 68-72: dwell = 0 when the state changed, then dwell += 1
DwellAfter(dw, old_state, new_state) ==
    (IF new_state # old_state THEN 0 ELSE dw) + 1

\* lines 54-57 when weighted_choice returned state s
Started(l, s) == [l EXCEPT !.pc = "loop", !.state = s]

\* lines 59-72, one iteration of the loop: datum is the value appended to
\* data and w the outcome of weighted_choice at line 66
Iterated(l, datum, w) ==
    IF w.raised
    THEN [l EXCEPT !.pc = "raised",
                   !.state_seq = Append(@, l.state),
                   !.data = Append(@, datum)]
    ELSE [l EXCEPT !.state_seq = Append(@, l.state),
                   !.data = Append(@, datum),
                   !.state = w.value,
                   !.dwells = DwellsAfter(@, l.state, w.value, l.dwell),
                   !.dwell = DwellAfter(@, l.state, w.value),
                   !.i = @ + 1]

---------------------------------------------------------------------------
(* Specification Spec: one run of random_data *)

\* the spacing of the weights of the models of specification Spec: 1/2
CoarseStep == FineOne \div 2

\* weight vectors of length n with entries 0, 1/2 or 1 that sum to 1 or to
\* 1/2
ProbVectors(n) ==
    {p \in SeqsOf({0, CoarseStep, FineOne}, n) :
        SeqSum(p) \in {FineOne - CoarseStep, FineOne}}

\* the vector p rotated so that its first entry is at position k (0-based)
Rotated(p, k) == [j \in 1..Len(p) |-> p[((j - 1 - k + Len(p)) % Len(p)) + 1]]

\* emissions in which state s emits on channel s only (on the last channel
\* when there are fewer channels than states).  With two states and two
\* channels this is [[1, 0], [0, 2]].
DiagonalEmissions(n, o) ==
    [s \in 0..(n - 1) |->
        [c \in 1..o |-> IF c = Min(s + 1, o) THEN s + 1 ELSE 0]]

\* the models given to random_data: any start vector, and a transition
\* matrix whose row s is one vector rotated to put its first entry on the
\* diagonal
Models(n) ==
    {[n_states |-> n, n_obs |-> o, start_prob |-> sp,
      trans_prob |-> [s \in 0..(n - 1) |-> Rotated(tp, s)],
      emissions |-> DiagonalEmissions(n, o)] :
        sp \in ProbVectors(n), tp \in ProbVectors(n), o \in 1..MaxObs}

Current == Locals(pc, state, state_seq, data, dwells, dwell, i)

Becomes(l) ==
    /\ pc' = l.pc /\ state' = l.state /\ state_seq' = l.state_seq
    /\ data' = l.data /\ dwells' = l.dwells /\ dwell' = l.dwell /\ i' = l.i

Init ==
    /\ \E n \in 1..MaxStates : model \in Models(n)
    /\ length \in (0 - 1)..MaxLength
    /\ noise \in BOOLEAN
    /\ pc = Entered(model).pc /\ state = Entered(model).state
    /\ state_seq = Entered(model).state_seq /\ data = Entered(model).data
    /\ dwells = Entered(model).dwells /\ dwell = Entered(model).dwell
    /\ i = Entered(model).i
    /\ wc_probs = <<>> /\ wc_r = 0 /\ wc_ret = NoCall
    /\ Idle
    /\ seed = <<>> /\ rng = 0 /\ sims = <<>>

Draws == FineDraws

\* line 54, weighted_choice returning a state
Start ==
    /\ pc = "start"
    /\ \E w \in {InitialChoice(model, r) : r \in Draws} :
        /\ ~w.raised
        /\ Becomes(Started(Current, w.value))
    /\ UNCHANGED <<wcVars, mfVars, argVars, ccVars>>

\* line 54, weighted_choice raising
StartRaises ==
    /\ pc = "start"
    /\ \E r \in Draws : InitialChoice(model, r).raised
    /\ Becomes([Current EXCEPT !.pc = "raised"])
    /\ UNCHANGED <<wcVars, mfVars, argVars, ccVars>>

\* lines 59-72, weighted_choice returning a state
Iterate ==
    /\ pc = "loop"
    /\ LoopContinues(i, length)
    /\ \E w \in {NextChoice(model, state, r) : r \in Draws},
          datum \in Datums(model, state, noise) :
        /\ ~w.raised
        /\ Becomes(Iterated(Current, datum, w))
    /\ UNCHANGED <<wcVars, mfVars, argVars, ccVars>>

\* lines 59-66, weighted_choice raising
IterateRaises ==
    /\ pc = "loop"
    /\ LoopContinues(i, length)
    /\ \E w \in {NextChoice(model, state, r) : r \in Draws},
          datum \in Datums(model, state, noise) :
        /\ w.raised
        /\ Becomes(Iterated(Current, datum, w))
    /\ UNCHANGED <<wcVars, mfVars, argVars, ccVars>>

\* line 75: return data, state_seq, dwells
Return ==
    /\ pc = "loop"
    /\ ~LoopContinues(i, length)
    /\ Becomes([Current EXCEPT !.pc = "done"])
    /\ UNCHANGED <<wcVars, mfVars, argVars, ccVars>>

Next ==
    \/ Start
    \/ StartRaises
    \/ Iterate
    \/ IterateRaises
    \/ Return

Spec == Init /\ [][Next]_vars

---------------------------------------------------------------------------
(* Specification SpecFine: one run of random_data on a model whose weights *)
(* are any numbers of the format that sum to exactly 1                     *)

FineVectors(n) ==
    {p \in SeqsOf(WeightsUpTo(FineOne), n) : SeqSum(p) = FineOne}

FineModels(n) ==
    {[n_states |-> n, n_obs |-> 1, start_prob |-> sp,
      trans_prob |-> [s \in 0..(n - 1) |-> Rotated(tp, s)],
      emissions |-> DiagonalEmissions(n, 1)] :
        sp \in FineVectors(n), tp \in FineVectors(n)}

InitFine ==
    /\ \E n \in 1..FineStates : model \in FineModels(n)
    /\ length \in 1..FineLength
    /\ noise = FALSE
    /\ pc = Entered(model).pc /\ state = Entered(model).state
    /\ state_seq = Entered(model).state_seq /\ data = Entered(model).data
    /\ dwells = Entered(model).dwells /\ dwell = Entered(model).dwell
    /\ i = Entered(model).i
    /\ wc_probs = <<>> /\ wc_r = 0 /\ wc_ret = NoCall
    /\ Idle
    /\ seed = <<>> /\ rng = 0 /\ sims = <<>>

SpecFine == InitFine /\ [][Next]_vars

---------------------------------------------------------------------------
(* Claims about random_data *)

\* the trajectory followed by the state sampled last
Augmented == Append(state_seq, state)

\* the number of equal entries of seq that end at position t
RECURSIVE RunLength(_, _)
RunLength(seq, t) ==
    IF t = 1 \/ seq[t - 1] # seq[t] THEN 1 ELSE 1 + RunLength(seq, t - 1)

\* the lengths, in order, of the runs of s among the first t entries of seq
\* that are followed by another state
RECURSIVE CompletedRuns(_, _, _)
CompletedRuns(seq, s, t) ==
    IF t = 0 THEN <<>>
    ELSE IF seq[t] = s /\ seq[t + 1] # s
         THEN Append(CompletedRuns(seq, s, t - 1), RunLength(seq, t))
         ELSE CompletedRuns(seq, s, t - 1)

States == 0..(model.n_states - 1)

RECURSIVE TotalOver(_, _, _)
TotalOver(f(_), dws, n) ==
    IF n = 0 THEN 0 ELSE f(dws[n - 1]) + TotalOver(f, dws, n - 1)

\* the number of entries and the sum of the entries of all dwells lists
DwellEntries == TotalOver(Len, dwells, model.n_states)
DwellSum == TotalOver(SeqSum, dwells, model.n_states)

\* the positions t of seq, t < Len(seq), where the state changes
Changes(seq) == {t \in 1..(Len(seq) - 1) : seq[t] # seq[t + 1]}

\* start_prob and every row of trans_prob sum to 1
ValidModel ==
    /\ SeqSum(model.start_prob) = FineOne
    /\ \A s \in States : SeqSum(model.trans_prob[s]) = FineOne

\* C2: every value appended to dwells[s] is the length of the run of s in
\* state_sequence that ends at that transition, for the first run and all
\* later ones, so every recorded dwell is at least 1.
C2_DwellIsRunLength ==
    pc \in {"loop", "done"}
        => \A s \in States :
            /\ dwells[s] = CompletedRuns(Augmented, s, Len(state_seq))
            /\ \A k \in 1..Len(dwells[s]) : dwells[s][k] >= 1

\* C3 as stated: at return the number of entries of all dwells lists is the
\* number of positions t, 0 <= t < L-1, with state_sequence[t] #
\* state_sequence[t+1], whatever state is sampled at the last step.
C3_TrailingRunNeverFlushed ==
    pc = "done" => DwellEntries = Cardinality(Changes(state_seq))

\* C3 amended: at return the number of entries of all dwells lists is the
\* number of steps t, 0 <= t < L, at which the state sampled next differs
\* from state_sequence[t]; the run in progress at the end is left out
\* exactly when the state sampled at the last step equals the last state.
C3_EntriesCountSampledChanges ==
    pc = "done"
        => /\ DwellEntries = Cardinality(Changes(Augmented))
           /\ (DwellEntries = Cardinality(Changes(state_seq)))
                <=> (state_seq = <<>> \/ state = state_seq[Len(state_seq)])

\* a returned run with a change inside the trajectory and one at its last step
C3_Witness ==
    /\ pc = "done"
    /\ Len(state_seq) >= 2
    /\ Changes(state_seq) # {}
    /\ state # state_seq[Len(state_seq)]

\* C4: for a model whose start_prob and trans_prob rows sum to 1 and a
\* length L > 0, random_data returns observations and state_sequence of
\* exactly L entries, every state in [0, n_states).
C4_LengthsAndRange ==
    (ValidModel /\ length > 0)
        => /\ pc # "raised"
           /\ Len(data) = Len(state_seq)
           /\ Len(state_seq) <= length
           /\ pc = "done"
                => /\ Len(data) = length
                   /\ Len(state_seq) = length
                   /\ \A t \in 1..Len(state_seq) : state_seq[t] \in States

\* C7: random_data called with a length L <= 0 fails with an InvalidLength
\* error and returns no trajectory.
C7_NonPositiveLengthFails ==
    length <= 0 => pc # "done"

\* C8: with noise disabled, observations[t] is the model's emission row of
\* state_sequence[t] for every step t.
C8_NoiselessObservations ==
    ~noise
        => /\ Len(data) = Len(state_seq)
           /\ \A t \in 1..Len(data) : data[t] = model.emissions[state_seq[t]]

\* a returned noiseless run that visited two states
C8_Witness ==
    /\ pc = "done" /\ ~noise
    /\ Len(data) >= 2
    /\ \E t, u \in 1..Len(data) :
        state_seq[t] # state_seq[u] /\ data[t] # data[u]

\* C10: after each completed iteration the sum of all recorded dwells plus
\* the running counter equals the number of iterations executed; at return
\* that number is L (none for L < 0), so the recorded dwells sum to L minus
\* the final counter and never exceed L.
C10_DwellAccounting ==
    pc \in {"loop", "done"}
        => /\ DwellSum + dwell = i
           /\ pc = "done"
                => /\ i = (IF length > 0 THEN length ELSE 0)
                   /\ DwellSum = i - dwell
                   /\ length >= 0 => (DwellSum = length - dwell /\ DwellSum <= length)

\* a returned run with a recorded dwell and a counter above 1
C10_Witness ==
    /\ pc = "done"
    /\ DwellSum >= 1
    /\ dwell >= 2
    /\ i = length

---------------------------------------------------------------------------
(* Specification SpecConc: two runs of random_data on the module-level     *)
(* model, their steps interleaved, both drawing from the generator of the  *)
(* random module                                                           *)

Runs == {1, 2}

\* the draws two runs and one factory call take at most
StreamLen == 2 * (ConcLength + 1) + FactoryStates

\* the script: random_data (line 91), random_model(n_states, 1) (line 127)
\* and random_data (line 145) on one seeded generator
InitConc ==
    /\ \E n \in 1..MaxStates : model \in {m \in Models(n) : m.n_obs = 1}
    /\ length \in 1..ConcLength
    /\ noise = FALSE
    /\ seed \in Streams(StreamLen)
    /\ rng = 0
    /\ sims = [p \in Runs |-> Entered(model)]
    /\ mf_args = [entry |-> "random_model", n_states |-> FactoryStates, n_obs |-> 1]
    /\ mf_model = [stage |-> "call"]
    /\ pc = "idle" /\ state = 0 - 1 /\ state_seq = <<>> /\ data = <<>>
    /\ dwells = <<>> /\ dwell = 0 /\ i = 0
    /\ wc_probs = <<>> /\ wc_r = 0 /\ wc_ret = NoCall

\* run 1 is the run that is called first
MayStart(p) == sims[p].pc = "start" /\ (p = 2 => sims[1].pc # "start")

\* line 15 inside line 54: the draw is taken from the shared generator
ConcStart(p) ==
    /\ MayStart(p)
    /\ rng < Len(seed)
    /\ rng' = rng + 1
    /\ ~InitialChoice(model, Random(seed, rng)).raised
    /\ sims' = [sims EXCEPT ![p] =
                    Started(@, InitialChoice(model, Random(seed, rng)).value)]
    /\ UNCHANGED <<seed, wcVars, mfVars, argVars, rdVars>>

ConcStartRaises(p) ==
    /\ MayStart(p)
    /\ rng < Len(seed)
    /\ rng' = rng + 1
    /\ InitialChoice(model, Random(seed, rng)).raised
    /\ sims' = [sims EXCEPT ![p].pc = "raised"]
    /\ UNCHANGED <<seed, wcVars, mfVars, argVars, rdVars>>

\* lines 59-72, the draw of line 66 taken from the shared generator
ConcIterate(p) ==
    /\ sims[p].pc = "loop"
    /\ LoopContinues(sims[p].i, length)
    /\ rng < Len(seed)
    /\ rng' = rng + 1
    /\ ~NextChoice(model, sims[p].state, Random(seed, rng)).raised
    /\ sims' = [sims EXCEPT ![p] =
                    Iterated(@, EmissionRow(model, sims[p].state),
                             NextChoice(model, sims[p].state, Random(seed, rng)))]
    /\ UNCHANGED <<seed, wcVars, mfVars, argVars, rdVars>>

ConcIterateRaises(p) ==
    /\ sims[p].pc = "loop"
    /\ LoopContinues(sims[p].i, length)
    /\ rng < Len(seed)
    /\ rng' = rng + 1
    /\ NextChoice(model, sims[p].state, Random(seed, rng)).raised
    /\ sims' = [sims EXCEPT ![p] =
                    Iterated(@, EmissionRow(model, sims[p].state),
                             NextChoice(model, sims[p].state, Random(seed, rng)))]
    /\ UNCHANGED <<seed, wcVars, mfVars, argVars, rdVars>>

ConcReturn(p) ==
    /\ sims[p].pc = "loop"
    /\ ~LoopContinues(sims[p].i, length)
    /\ sims' = [sims EXCEPT ![p].pc = "done"]
    /\ UNCHANGED <<seed, rng, wcVars, mfVars, argVars, rdVars>>

\* line 127: the factory call made after the first random_data call
ConcRandomModel == sims[1].pc # "start" /\ RandomModel
ConcTransitionRowStep == sims[1].pc # "start" /\ TransitionRowStep
ConcReturnModel == sims[1].pc # "start" /\ ReturnModel

NextConc ==
    \/ \E p \in Runs : ConcStart(p)
    \/ \E p \in Runs : ConcStartRaises(p)
    \/ \E p \in Runs : ConcIterate(p)
    \/ \E p \in Runs : ConcIterateRaises(p)
    \/ \E p \in Runs : ConcReturn(p)
    \/ ConcRandomModel
    \/ ConcTransitionRowStep
    \/ ConcReturnModel

SpecConc == InitConc /\ [][NextConc]_vars

\* the locals of a run that has the generator to itself, taken from locals l
\* and pos draws taken to its end
RECURSIVE Alone(_, _)
Alone(l, pos) ==
    IF l.pc = "start"
    THEN LET w == InitialChoice(model, Random(seed, pos))
         IN  IF w.raised THEN [l EXCEPT !.pc = "raised"]
             ELSE Alone(Started(l, w.value), pos + 1)
    ELSE IF l.pc = "loop" /\ LoopContinues(l.i, length)
    THEN Alone(Iterated(l, EmissionRow(model, l.state),
                        NextChoice(model, l.state, Random(seed, pos))),
               pos + 1)
    ELSE IF l.pc = "loop" THEN [l EXCEPT !.pc = "done"]
    ELSE l

\* line 75: the values random_data returns
Trajectory(l) == <<l.data, l.state_seq, l.dwells>>

\* C6: two runs of random_data whose steps are interleaved do not interfere
\* through the random source: the trajectory the run called first produces
\* from a given seed is the one it produces alone, whether or not the other
\* run takes steps in between.
C6_RunsDoNotInterfere ==
    (ValidModel /\ sims[1].pc = "done")
        => Trajectory(sims[1]) = Trajectory(Alone(Entered(model), 0))

====
